---- MODULE Spec2Model ----
(***************************************************************************)
(* Code Review Crew: the review run of crew.py (create_review_tasks,       *)
(* run_code_review) as driven by the Streamlit form of app.py.             *)
(*                                                                         *)
(* run_code_review builds five Task objects and one Crew with the default  *)
(* (sequential) process and calls crew.kickoff(): the tasks run one after  *)
(* the other in the order of the returned list, each by one blocking call  *)
(* of its agent; an exception of an agent leaves kickoff and               *)
(* run_code_review, and the form's handler catches it.                     *)
(*                                                                         *)
(* The source keeps no status field: a task's status below is what the run *)
(* has done with it. Pending: not started. Running: its agent's call is    *)
(* open. Completed: the call returned and task.output is set. Failed: the  *)
(* call raised.                                                            *)
(***************************************************************************)
EXTENDS Integers, Sequences, FiniteSets, TLC

\* Longest text typed into the form's text area.
MaxLen == 3
\* Number of different texts an agent may produce for one task.
NumTexts == 2

\* Python's None, for a text and for an exception.
NoText == <<>>
NoError == [origin |-> "None", cause |-> "None"]

VARIABLES
    code_input,     \* app.py: the text area's content
    shown,          \* app.py: what the results column shows
    pc,             \* where run_code_review is: idle, running, returned, raised
    status,         \* per task: Pending, Running, Completed, Failed
    output,         \* per task: task.output (NoText until the task completed)
    context_seen,   \* per task: the context outputs resolved at its start
    invocations,    \* per task: calls of its agent in this run
    order,          \* the tasks of this run in the order they completed
    result,         \* the value run_code_review returned (none: NoText)
    error,          \* the exception run_code_review raised (none: NoError)
    cancelled,      \* the user asked to stop the run in progress
    last_outcome    \* how the last finished call of run_code_review ended

vars == <<code_input, shown, pc, status, output, context_seen, invocations,
          order, result, error, cancelled, last_outcome>>

-----------------------------------------------------------------------------
(* The task set of create_review_tasks.                                    *)

Specialists == {"quality_task", "security_task", "frontend_task",
                "infrastructure_task"}

Tasks == Specialists \cup {"decision_task"}

\* A mutation of TaskList: the synthesis task is put first in the list.
TaskListDecisionFirst ==
    <<"decision_task", "quality_task", "security_task", "frontend_task",
      "infrastructure_task">>

\* The list create_review_tasks returns, which the Crew runs in this order.
TaskList ==
    <<"quality_task", "security_task", "frontend_task",
      "infrastructure_task", "decision_task">>

\* A mutation of DecisionContext: one specialist is left out.
DecisionContextShort ==
    <<"quality_task", "security_task", "frontend_task">>

\* decision_task's context=[...] argument.
DecisionContext ==
    <<"quality_task", "security_task", "frontend_task",
      "infrastructure_task">>

\* The declared context of a task: only decision_task passes one.
Context(t) == IF t = "decision_task" THEN DecisionContext ELSE <<>>

Range(s) == {s[i] : i \in 1..Len(s)}

\* The declared dependency set of a task.
Deps(t) == Range(Context(t))

RECURSIVE Reach(_, _)
\* The tasks reachable from the set S along declared dependencies, S included.
Reach(S, n) ==
    IF n = 0 THEN S
    ELSE Reach(S \cup UNION {Deps(u) : u \in S}, n - 1)

\* t depends on a, directly or transitively.
DependsOn(t, a) == t # a /\ a \in Reach(Deps(t), Cardinality(Tasks))

\* The position of a task in the list the Crew runs.
Position(t) == CHOOSE i \in 1..Len(TaskList) : TaskList[i] = t

LastTask == TaskList[Len(TaskList)]

-----------------------------------------------------------------------------
(* The form's input: texts are sequences of characters; " " is white       *)
(* space, and the placeholder "# Paste your code here..." is abbreviated   *)
(* to "#", "p".                                                            *)

Chars == {" ", "#", "p"}

Placeholder == <<"#", "p">>

Inputs == UNION {[1..n -> Chars] : n \in 0..MaxLen}

RECURSIVE LStrip(_)
LStrip(s) == IF s # <<>> /\ Head(s) = " " THEN LStrip(Tail(s)) ELSE s

RECURSIVE RStrip(_)
RStrip(s) ==
    IF s # <<>> /\ s[Len(s)] = " " THEN RStrip(SubSeq(s, 1, Len(s) - 1)) ELSE s

\* str.strip()
Strip(s) == RStrip(LStrip(s))

\* A mutation of NoCode: the input is compared without strip().
NoCodeUnstripped(s) == s = <<>> \/ s = Placeholder

\* The handler's test of the input.
NoCode(s) == Strip(s) = <<>> \/ Strip(s) = Placeholder

-----------------------------------------------------------------------------
(* What the agents produce.                                                *)

Texts == {<<t, v>> : t \in Tasks, v \in 1..NumTexts}

Causes == {"api_error", "empty_response"}

\* The context handed to the agent of t: the outputs of its context tasks
\* that have one, in the order of the context list.
ResolveContext(t, out) ==
    LET all == [i \in 1..Len(Context(t)) |-> out[Context(t)[i]]]
    IN  SelectSeq(all, LAMBDA x : x # NoText)

\* What kickoff returns: the output of the last task of the list, with the
\* outputs of all tasks.
CrewOutput(out) ==
    [raw |-> out[LastTask],
     tasks_output |-> [i \in 1..Len(TaskList) |-> out[TaskList[i]]]]

\* A mutation of Str: the first task's output is taken.
StrFirst(c) == c.tasks_output[1]

\* str(result)
Str(c) == c.raw

-----------------------------------------------------------------------------

\* No call of run_code_review is open and none has ended in this script run.
NoRun ==
    /\ pc = "idle"
    /\ status = [t \in Tasks |-> "Pending"]
    /\ output = [t \in Tasks |-> NoText]
    /\ context_seen = [t \in Tasks |-> <<>>]
    /\ invocations = [t \in Tasks |-> 0]
    /\ order = <<>>
    /\ result = NoText
    /\ error = NoError
    /\ cancelled = FALSE

\* The script starts again: the objects of the last call are gone.
DropRun ==
    /\ pc' = "idle"
    /\ status' = [t \in Tasks |-> "Pending"]
    /\ output' = [t \in Tasks |-> NoText]
    /\ context_seen' = [t \in Tasks |-> <<>>]
    /\ invocations' = [t \in Tasks |-> 0]
    /\ order' = <<>>
    /\ result' = NoText
    /\ error' = NoError
    /\ cancelled' = FALSE

Init ==
    /\ code_input = Placeholder
    /\ shown = "info"
    /\ last_outcome = "none"
    /\ NoRun

\* The script runs again without the button: the user changed the text.
EditCode(s) ==
    /\ pc # "running"
    /\ code_input' = s
    /\ shown' = "info"
    /\ DropRun
    /\ UNCHANGED last_outcome

\* The button is pressed on an input that holds no code.
ClickRunNoCode ==
    /\ pc # "running"
    /\ NoCode(code_input)
    /\ shown' = "warning"
    /\ DropRun
    /\ UNCHANGED <<code_input, last_outcome>>

\* A mutation of ClickRun: the tasks are built once and used again by every
\* call.
ClickRunKeepsTasks ==
    /\ pc # "running"
    /\ ~NoCode(code_input)
    /\ shown' = "spinner"
    /\ pc' = "running"
    /\ UNCHANGED <<code_input, status, output, context_seen, invocations,
                   order, result, error, cancelled, last_outcome>>

\* The button is pressed on code: run_code_review builds fresh tasks and a
\* fresh Crew and enters kickoff.
ClickRun ==
    /\ pc # "running"
    /\ ~NoCode(code_input)
    /\ shown' = "spinner"
    /\ pc' = "running"
    /\ status' = [t \in Tasks |-> "Pending"]
    /\ output' = [t \in Tasks |-> NoText]
    /\ context_seen' = [t \in Tasks |-> <<>>]
    /\ invocations' = [t \in Tasks |-> 0]
    /\ order' = <<>>
    /\ result' = NoText
    /\ error' = NoError
    /\ cancelled' = FALSE
    /\ UNCHANGED <<code_input, last_outcome>>

\* A mutation of CanStart: every task whose context tasks have completed is
\* started, whatever else is running (concurrent dispatch).
CanStartConcurrent(t) ==
    /\ pc = "running"
    /\ status[t] = "Pending"
    /\ \A d \in Deps(t) : status[d] = "Completed"

\* A mutation of CanStart: the loop stops before the last task of the list.
CanStartNotLast(t) ==
    /\ pc = "running"
    /\ status[t] = "Pending"
    /\ t # LastTask
    /\ \A u \in Tasks :
          Position(u) < Position(t) => status[u] \in {"Completed", "Failed"}

\* kickoff's loop reaches t: the call of every task before it in the list is
\* over (a call that raised has left the loop: pc is no longer "running").
CanStart(t) ==
    /\ pc = "running"
    /\ status[t] = "Pending"
    /\ \A u \in Tasks :
          Position(u) < Position(t) => status[u] \in {"Completed", "Failed"}

\* kickoff starts the next task of the list: its agent is called with the
\* context resolved from the outputs so far.
StartTask(t) ==
    /\ CanStart(t)
    /\ status' = [status EXCEPT ![t] = "Running"]
    /\ invocations' = [invocations EXCEPT ![t] = @ + 1]
    /\ context_seen' = [context_seen EXCEPT ![t] = ResolveContext(t, output)]
    /\ UNCHANGED <<code_input, shown, pc, output, order, result, error,
                   cancelled, last_outcome>>

\* A mutation of TaskCompletes: the outputs recorded before are dropped
\* when a new one is recorded.
TaskCompletesDropsEarlier(t, x) ==
    /\ pc = "running"
    /\ status[t] = "Running"
    /\ x[1] = t
    /\ status' = [status EXCEPT ![t] = "Completed"]
    /\ output' = [u \in Tasks |-> IF u = t THEN x ELSE NoText]
    /\ order' = Append(order, t)
    /\ IF t = LastTask
       THEN /\ pc' = "returned"
            /\ result' = Str(CrewOutput(output'))
            /\ shown' = "success"
            /\ last_outcome' = "returned"
       ELSE UNCHANGED <<pc, result, shown, last_outcome>>
    /\ UNCHANGED <<code_input, context_seen, invocations, error, cancelled>>

\* A mutation of TaskCompletes: after the last task kickoff does not return.
TaskCompletesNoReturn(t, x) ==
    /\ pc = "running"
    /\ status[t] = "Running"
    /\ x[1] = t
    /\ status' = [status EXCEPT ![t] = "Completed"]
    /\ output' = [output EXCEPT ![t] = x]
    /\ order' = Append(order, t)
    /\ UNCHANGED <<code_input, shown, pc, result, context_seen, invocations,
                   error, cancelled, last_outcome>>

\* The agent's call returns a text: the task's output is set; after the last
\* task kickoff returns, run_code_review returns str(result) and the form
\* shows it.
TaskCompletes(t, x) ==
    /\ pc = "running"
    /\ status[t] = "Running"
    /\ x[1] = t
    /\ status' = [status EXCEPT ![t] = "Completed"]
    /\ output' = [output EXCEPT ![t] = x]
    /\ order' = Append(order, t)
    /\ IF t = LastTask
       THEN /\ pc' = "returned"
            /\ result' = Str(CrewOutput(output'))
            /\ shown' = "success"
            /\ last_outcome' = "returned"
       ELSE UNCHANGED <<pc, result, shown, last_outcome>>
    /\ UNCHANGED <<code_input, context_seen, invocations, error, cancelled>>

\* A mutation of TaskFails: the exception is swallowed in the loop, which
\* goes on with the next task.
TaskFailsSwallowed(t, c) ==
    /\ pc = "running"
    /\ status[t] = "Running"
    /\ status' = [status EXCEPT ![t] = "Failed"]
    /\ UNCHANGED <<code_input, shown, pc, output, context_seen, invocations,
                   order, result, error, cancelled, last_outcome>>

\* A mutation of TaskFails: the error is reported for the last task of the
\* list, not for the task whose call raised.
TaskFailsBlamesTerminal(t, c) ==
    /\ pc = "running"
    /\ status[t] = "Running"
    /\ status' = [status EXCEPT ![t] = "Failed"]
    /\ pc' = "raised"
    /\ error' = [origin |-> LastTask, cause |-> c]
    /\ shown' = "error"
    /\ last_outcome' = "raised"
    /\ UNCHANGED <<code_input, output, context_seen, invocations, order,
                   result, cancelled>>

\* A mutation of TaskFails: the text produced before the call raised is kept
\* as the task's output.
TaskFailsWithPartialOutput(t, c) ==
    /\ pc = "running"
    /\ status[t] = "Running"
    /\ status' = [status EXCEPT ![t] = "Failed"]
    /\ output' = [output EXCEPT ![t] = <<t, 1>>]
    /\ pc' = "raised"
    /\ error' = [origin |-> t, cause |-> c]
    /\ shown' = "error"
    /\ last_outcome' = "raised"
    /\ UNCHANGED <<code_input, context_seen, invocations, order, result,
                   cancelled>>

\* A mutation of TaskFails: the handler has no except clause, so the form
\* shows no error message.
TaskFailsUncaught(t, c) ==
    /\ pc = "running"
    /\ status[t] = "Running"
    /\ status' = [status EXCEPT ![t] = "Failed"]
    /\ pc' = "raised"
    /\ error' = [origin |-> t, cause |-> c]
    /\ last_outcome' = "raised"
    /\ UNCHANGED <<code_input, shown, output, context_seen, invocations,
                   order, result, cancelled>>

\* The agent's call raises: the exception leaves kickoff and run_code_review,
\* and the form's handler shows it.
TaskFails(t, c) ==
    /\ pc = "running"
    /\ status[t] = "Running"
    /\ status' = [status EXCEPT ![t] = "Failed"]
    /\ pc' = "raised"
    /\ error' = [origin |-> t, cause |-> c]
    /\ shown' = "error"
    /\ last_outcome' = "raised"
    /\ UNCHANGED <<code_input, output, context_seen, invocations, order,
                   result, cancelled>>

\* The user asks to stop while run_code_review is blocked in kickoff, after
\* the first task was started. Nothing in the run reads the request.
Cancel ==
    /\ pc = "running"
    /\ \E t \in Tasks : invocations[t] > 0
    /\ ~cancelled
    /\ cancelled' = TRUE
    /\ UNCHANGED <<code_input, shown, pc, status, output, context_seen,
                   invocations, order, result, error, last_outcome>>

Next ==
    \/ \E s \in Inputs : EditCode(s)
    \/ ClickRunNoCode
    \/ ClickRun
    \/ \E t \in Tasks : StartTask(t)
    \/ \E t \in Tasks, x \in Texts : TaskCompletes(t, x)
    \/ \E t \in Tasks, c \in Causes : TaskFails(t, c)
    \/ Cancel

Spec == Init /\ [][Next]_vars

\* The form after the user typed a text: what EditCode leaves.
RunInit ==
    /\ code_input \in Inputs
    /\ shown = "info"
    /\ last_outcome = "none"
    /\ NoRun

\* The steps of a session in which the text is not changed any more.
RunNext ==
    \/ ClickRunNoCode
    \/ ClickRun
    \/ \E t \in Tasks : StartTask(t)
    \/ \E t \in Tasks, x \in Texts : TaskCompletes(t, x)
    \/ \E t \in Tasks, c \in Causes : TaskFails(t, c)
    \/ Cancel

\* kickoff is one blocking call: its loop goes on to the next task as soon
\* as a call is over, and every call of an agent returns or raises.
FairSpec ==
    /\ RunInit
    /\ [][RunNext]_vars
    /\ WF_vars(\E t \in Tasks : StartTask(t))
    /\ WF_vars(\/ \E t \in Tasks, x \in Texts : TaskCompletes(t, x)
               \/ \E t \in Tasks, c \in Causes : TaskFails(t, c))

TypeOK ==
    /\ code_input \in Inputs
    /\ shown \in {"info", "warning", "spinner", "success", "error"}
    /\ pc \in {"idle", "running", "returned", "raised"}
    /\ status \in [Tasks -> {"Pending", "Running", "Completed", "Failed"}]
    /\ \A t \in Tasks : output[t] = NoText \/ output[t] \in Texts
    /\ \A t \in Tasks : invocations[t] \in 0..1
    /\ cancelled \in BOOLEAN
    /\ last_outcome \in {"none", "returned", "raised"}

-----------------------------------------------------------------------------
(* Properties of a review run.                                             *)

\* The number of times x occurs in the sequence s.
Count(s, x) == Cardinality({i \in DOMAIN s : s[i] = x})

\* C1: in every run no task completes more than once and a task is Completed
\* exactly when it completed once; a run that returns has completed every
\* task exactly once; and every task that has been dispatched found each task
\* of its declared dependency set (for decision_task the four specialist
\* tasks) Completed with its output recorded, and was handed that output.
C1_CompletedOnceDepsComplete ==
    /\ \A t \in Tasks :
          /\ Count(order, t) <= 1
          /\ status[t] = "Completed" <=> Count(order, t) = 1
          /\ invocations[t] <= 1
    /\ pc = "returned" => \A t \in Tasks : Count(order, t) = 1
    /\ \A t \in Tasks :
          status[t] # "Pending" =>
             \A d \in Deps(t) :
                /\ status[d] = "Completed"
                /\ output[d] # NoText
                /\ Count(context_seen[t], output[d]) = 1

\* A run has dispatched decision_task, after the four specialists completed.
C1_Witness ==
    /\ status["decision_task"] = "Running"
    /\ Len(order) = 4

C3_OthersCompleteDecisionFailed ==
    (pc = "raised" /\ status["security_task"] = "Failed") =>
       /\ status["quality_task"] = "Completed"
       /\ status["frontend_task"] = "Completed"
       /\ status["infrastructure_task"] = "Completed"
       /\ status["decision_task"] = "Failed"
       /\ invocations["decision_task"] = 0
       /\ error.origin = "security_task"

\* C4: run_code_review ends in one of two ways. It returns, and the value is
\* the output of decision_task, every task is Completed and there is no
\* error; or it raises, and there is no value. No value is returned once a
\* task has failed.
C4_TerminalResultOrError ==
    /\ pc = "returned" =>
          /\ result = output["decision_task"]
          /\ result \in Texts
          /\ result[1] = "decision_task"
          /\ \A t \in Tasks : status[t] = "Completed"
          /\ error = NoError
    /\ pc = "raised" =>
          /\ result = NoText
          /\ error # NoError
          /\ status[error.origin] = "Failed"
    /\ pc \in {"idle", "running"} => result = NoText /\ error = NoError
    /\ (\E t \in Tasks : status[t] = "Failed") => result = NoText

\* run_code_review has returned a value.
C4_Witness == pc = "returned" /\ result # NoText /\ shown = "success"

\* C7 as stated: once the user asked to stop a run that has dispatched a
\* task and has not ended, no task is dispatched any more, and the run ends
\* neither returned (Completed) nor raised (Failed).
C7_CancelStopsRun ==
    /\ [](cancelled => pc \notin {"returned", "raised"})
    /\ [][(cancelled /\ pc = "running") => invocations' = invocations]_vars

\* A task is Ready in the spec's sense: not started, with every declared dependency completed.
Ready(t) ==
    /\ pc = "running"
    /\ status[t] = "Pending"
    /\ \A d \in Deps(t) : status[d] = "Completed"

\* C8 as stated: while one specialist task is Running, every other
\* specialist task that is Ready can be dispatched.
C8_ReadyNotBlocked ==
    \A t \in Specialists, u \in Specialists :
       (t # u /\ status[t] = "Running" /\ Ready(u)) => CanStart(u)

\* C10: decision_task is the only task executed once the four specialist
\* tasks are Completed, it is executed only then and at most once, no
\* specialist is executed a second time, and the context resolved for it
\* holds the output of each specialist exactly once and nothing else,
\* whatever the order in which they completed.
C10_DecisionSeesEachResultOnce ==
    /\ status["decision_task"] # "Pending" =>
          /\ \A s \in Specialists :
                /\ status[s] = "Completed"
                /\ output[s] \in Texts
                /\ Count(context_seen["decision_task"], output[s]) = 1
          /\ Len(context_seen["decision_task"]) = Cardinality(Specialists)
          /\ Range(context_seen["decision_task"]) =
                {output[s] : s \in Specialists}
          /\ invocations["decision_task"] = 1
    /\ (\A s \in Specialists : status[s] = "Completed") =>
          /\ \A s \in Specialists : invocations[s] = 1 /\ Count(order, s) = 1
          /\ \A t \in Tasks : status[t] = "Running" => t = "decision_task"
    /\ pc = "returned" => order[Len(order)] = "decision_task"

\* A run in which all four specialists succeeded has returned.
C10_Witness ==
    /\ pc = "returned"
    /\ Len(context_seen["decision_task"]) = 4
    /\ \A s \in Specialists : status[s] = "Completed"

\* C11: every run ends, given that the loop goes on and every call of an
\* agent returns or raises: a run in progress leads to a run that returned
\* or raised. A run has ended with success exactly when decision_task is
\* Completed, and with failure exactly when decision_task or one of the
\* tasks it depends on is Failed; a run that has not ended has no Failed
\* task, and a run that has ended has no Running task.
C11_RunTerminates ==
    /\ (pc = "running") ~> (pc \in {"returned", "raised"})
    /\ [](pc = "returned" <=> status["decision_task"] = "Completed")
    /\ [](pc = "raised" <=>
            \E a \in Tasks :
               /\ status[a] = "Failed"
               /\ (a = "decision_task" \/ DependsOn("decision_task", a)))
    /\ [](pc # "running" => \A t \in Tasks : status[t] # "Running")

\* A run has ended with a failure after two tasks completed.
C11_Witness == pc = "raised" /\ Len(order) = 2

C13_SequentialInListOrder ==
    /\ Cardinality({t \in Tasks : status[t] = "Running"}) <= 1
    /\ \A t \in Tasks, u \in Tasks :
          (status[t] # "Pending" /\ Position(u) < Position(t)) =>
             status[u] = "Completed"
    /\ Len(order) <= Len(TaskList)
    /\ order = SubSeq(TaskList, 1, Len(order))
    /\ TaskList = <<"quality_task", "security_task", "frontend_task",
                    "infrastructure_task", "decision_task">>

\* security_task is Running after quality_task completed, frontend_task
\* waiting.
C13_Witness ==
    /\ status["quality_task"] = "Completed"
    /\ status["security_task"] = "Running"
    /\ status["frontend_task"] = "Pending"

\* C14: within one run a task's status changes only from Pending, being
\* Ready, to Running and from Running to Completed or Failed, so Completed
\* and Failed are kept; a Completed or Failed task was called once; and a
\* task has an output exactly when it is Completed.
C14_StatusLifecycle ==
    /\ [][pc = "running" =>
            \A t \in Tasks :
               \/ status'[t] = status[t]
               \/ /\ status[t] = "Pending"
                  /\ Ready(t)
                  /\ status'[t] = "Running"
               \/ /\ status[t] = "Running"
                  /\ status'[t] \in {"Completed", "Failed"}]_vars
    /\ [](\A t \in Tasks :
            status[t] \in {"Running", "Completed", "Failed"} =>
               invocations[t] = 1)
    /\ [](\A t \in Tasks : output[t] # NoText <=> status[t] = "Completed")

\* One task is Completed with its output and the next one is Failed without.
C14_Witness ==
    /\ status["quality_task"] = "Completed"
    /\ output["quality_task"] # NoText
    /\ status["security_task"] = "Failed"
    /\ output["security_task"] = NoText

\* C15: during a run the output of a task is written only by the step that
\* completes that task, only while the task has no output yet, and that step
\* writes no other task's output; an output once written is never changed
\* or removed in that run.
C15_ContextWriteOnce ==
    [][pc = "running" =>
         \A t \in Tasks :
            output'[t] # output[t] =>
               /\ output[t] = NoText
               /\ status[t] = "Running"
               /\ status'[t] = "Completed"
               /\ output'[t] \in Texts
               /\ output'[t][1] = t
               /\ \A u \in Tasks \ {t} : output'[u] = output[u]]_vars

\* Two outputs are recorded and the run is still in progress.
C15_Witness ==
    /\ pc = "running"
    /\ output["quality_task"] # NoText
    /\ output["security_task"] # NoText
    /\ status["frontend_task"] = "Running"

\* The number of declared dependencies of t that are not Completed.
Unresolved(t) == Cardinality({d \in Deps(t) : status[d] # "Completed"})

\* C16: when a run starts, the Ready tasks are exactly those without
\* dependencies, the four specialist tasks; later a task becomes Ready
\* exactly in the step in which the completion of one of its dependencies
\* brings its number of unresolved dependencies to zero; and a Ready task is
\* eventually dispatched, unless the run has failed or was cancelled.
C16_ReadyThenDispatched ==
    /\ []((pc = "running" /\ \A t \in Tasks : status[t] = "Pending") =>
            /\ {t \in Tasks : Ready(t)} = {t \in Tasks : Deps(t) = {}}
            /\ {t \in Tasks : Ready(t)} = Specialists)
    /\ [][pc = "running" =>
            \A t \in Tasks :
               (~Ready(t) /\ Ready(t)') <=>
                  /\ pc' = "running"
                  /\ status'[t] = "Pending"
                  /\ Unresolved(t) > 0
                  /\ Unresolved(t)' = 0
                  /\ \E d \in Deps(t) :
                        status[d] = "Running" /\ status'[d] = "Completed"]_vars
    /\ \A t \in Tasks :
          Ready(t) ~> (status[t] # "Pending" \/ pc = "raised" \/ cancelled)

\* decision_task is Ready: its four dependencies completed and it waits.
C16_Witness == Ready("decision_task") /\ ~cancelled

\* C17: every call of run_code_review starts from fresh tasks, whatever the
\* call before it left: no status, output, resolved context, call count,
\* result, error or stop request of an earlier run is there when a run
\* starts; and what a task observes in a run is an output recorded in that
\* run, and a status other than Pending comes from a call in that run.
C17_FreshRun ==
    /\ [][(pc # "running" /\ pc' = "running") =>
            /\ status' = [t \in Tasks |-> "Pending"]
            /\ output' = [t \in Tasks |-> NoText]
            /\ context_seen' = [t \in Tasks |-> <<>>]
            /\ invocations' = [t \in Tasks |-> 0]
            /\ order' = <<>>
            /\ result' = NoText
            /\ error' = NoError
            /\ cancelled' = FALSE]_vars
    /\ [](\A t \in Tasks :
            /\ \A i \in DOMAIN context_seen[t] :
                  /\ context_seen[t][i] = output[Context(t)[i]]
                  /\ Count(order, Context(t)[i]) = 1
            /\ status[t] # "Pending" => invocations[t] = 1
            /\ output[t] # NoText => Count(order, t) = 1)

\* A run after a failed run has got as far as decision_task.
C17_Witness ==
    /\ last_outcome = "raised"
    /\ status["decision_task"] = "Running"

\* The positions of s that hold no white space.
NonSpace(s) == {i \in DOMAIN s : s[i] # " "}

\* s from its first to its last character that is no white space.
Core(s) ==
    IF NonSpace(s) = {} THEN <<>>
    ELSE SubSeq(s,
                CHOOSE i \in NonSpace(s) : \A j \in NonSpace(s) : i <= j,
                CHOOSE i \in NonSpace(s) : \A j \in NonSpace(s) : i >= j)

\* s holds code: something else than white space and than the placeholder
\* with white space around it.
HoldsCode(s) == Core(s) # <<>> /\ Core(s) # Placeholder

\* C18: a run starts only by a press of the button on an input that holds
\* code; while the form shows the warning or the idle hint no run is open
\* and no agent was called; the warning is shown only for an input without
\* code, and a step on such an input starts no run.
C18_RunOnlyOnCode ==
    /\ [][(pc # "running" /\ pc' = "running") =>
            /\ HoldsCode(code_input)
            /\ code_input' = code_input
            /\ shown' = "spinner"]_vars
    /\ [][(~HoldsCode(code_input) /\ code_input' = code_input) =>
            /\ pc' = "idle"
            /\ \A t \in Tasks : invocations'[t] = 0]_vars
    /\ [](pc # "idle" => HoldsCode(code_input))
    /\ [](shown \in {"warning", "info"} =>
            /\ pc = "idle"
            /\ \A t \in Tasks : invocations[t] = 0 /\ status[t] = "Pending")
    /\ [](shown = "warning" => ~HoldsCode(code_input))

\* The button was pressed on the placeholder with white space before it.
C18_Witness ==
    /\ shown = "warning"
    /\ code_input = <<" ", "#", "p">>

\* C19: the form shows the error message exactly when run_code_review
\* raised and 'Review complete!' with the result exactly when it returned,
\* never both for one press; and after a failed run the button starts a new
\* run.
C19_ErrorCaughtAndShown ==
    /\ pc = "raised" <=> shown = "error"
    /\ pc = "returned" <=> shown = "success"
    /\ shown = "success" => result \in Texts /\ error = NoError
    /\ shown = "error" => error # NoError /\ result = NoText
    /\ pc = "raised" => ENABLED ClickRun

\* The first task's call raised and the form shows the error.
C19_Witness ==
    /\ shown = "error"
    /\ error.origin = "quality_task"
    /\ Len(order) = 0

====
